---- MODULE Spec2Model ----
(***************************************************************************)
(* Model of gmaps_scraper_server: scraper.scrape_google_maps (one run),    *)
(* scraper.try_load_website, the breaks of scraper.smart_delay,            *)
(* extractor.extract_place_data and the legacy blob parser of extractor.   *)
(*                                                                         *)
(* Conventions.  A Python value that may be None is a sequence of length   *)
(* at most one: None is <<>> and the value v is <<v>>.  A dict read only   *)
(* through .get(key) is a record whose absent keys hold None.  Ratings are *)
(* kept in tenths (4.5 is 45) so that they stay integers.                  *)
(***************************************************************************)
EXTENDS Integers, Sequences, FiniteSets, TLC

VARIABLES
    pc,                     \* position of the run inside scrape_google_maps
    max_places,             \* argument max_places (NoMax models None)
    browser,                \* "none" | "connected" | "disconnected"
    place_links,            \* set of detail-page links collected so far
    scroll_attempts_no_new, \* consecutive no-progress scroll iterations
    last_height,            \* feed scrollHeight seen by the previous iteration
    todo,                   \* links the for-loop has not yet visited
    count,                  \* number of links the for-loop has started
    in_flight,              \* links whose loop body has begun and not ended
    results,                \* list of place records accumulated by the run
    outcome,                \* "running" | "returned" | "raised"
    scroll_exit,            \* ghost: which break left the scroll loop
    single_result,          \* ghost: the single-place branch (line 357) was taken
    attempts,               \* ghost: link -> number of times it was navigated to
    failed,                 \* ghost: links whose processing raised
    item_log,               \* ghost: per record, the page read and the probe status
    caught,                 \* ghost: which run-level handler ran
    close_calls,            \* ghost: number of browser.close() calls issued
    close_log,              \* ghost: what each browser.close() call did
    last_iter,              \* ghost: what the latest scroll iteration saw
    stalled,                \* ghost: latest consecutive iterations without progress
    frozen_iters,           \* ghost: iterations run since the feed stopped changing
    breaks,                 \* ghost: values of count at which smart_delay took a break
    extended,               \* ghost: values of count at which the break was extended
    pages,                  \* environment: the contents detail pages can have
    feed,                   \* environment: 0, or the height the feed is stuck at
    fn,                     \* pure-function harness: which function is applied
    html_content,           \* pure-function harness: input of extract_place_data
    place_data,             \* pure-function harness: its result
    probe_nav,              \* pure-function harness: outcome of the probe goto
    website_status,         \* pure-function harness: result of try_load_website
    blob,                   \* pure-function harness: a legacy blob, as a list
    legacy_fields           \* pure-function harness: fields parsed from its two forms

vars == <<pc, max_places, browser, place_links, scroll_attempts_no_new,
          last_height, todo, count, in_flight, results, outcome, scroll_exit,
          single_result, attempts, failed, item_log, caught, close_calls,
          close_log, last_iter, stalled, frozen_iters, breaks, extended,
          pages, feed, fn, html_content, place_data, probe_nav,
          website_status, blob, legacy_fields>>

runVars == <<pc, max_places, browser, place_links, scroll_attempts_no_new,
             last_height, todo, count, in_flight, results, outcome, scroll_exit,
             single_result, attempts, failed, item_log, caught, close_calls,
             close_log, last_iter, stalled, frozen_iters, breaks, extended,
             pages, feed>>

\* what the scroll loop alone writes to
scrollGhosts == <<last_iter, stalled, frozen_iters>>

\* what the head of the for-loop alone writes to
paceVars == <<in_flight, breaks, extended>>

fnVars == <<fn, html_content, place_data, probe_nav, website_status, blob,
            legacy_fields>>

None == <<>>

Some(v) == <<v>>

(***************************************************************************)
(* Python truthiness, per type of the value held.                          *)
(***************************************************************************)
TruthyStr(x) == x # None /\ x[1] # ""

TruthyNum(x) == x # None /\ x[1] # 0

TruthyList(x) == x # None /\ x[1] # <<>>

TruthyObj(x) == x # None

(***************************************************************************)
(* extractor.py.  A page is what the eight extractors yield on its markup: *)
(* rendered.* are the return values of the seven _extract_* functions and  *)
(* init is the dict returned by _extract_from_app_init_state.  The domains *)
(* below are the values each function can return.                          *)
(***************************************************************************)
\* _extract_name: the stripped h1 text when non-empty, else None
NameValues == {None, Some("Cafe Roma")}

\* _extract_rating: float(match) or None; "0" and "0.0" parse to 0.0
RatingValues == {None, Some(0), Some(45)}

\* _extract_reviews_count: int(match) or None; "0 reviews" parses to 0
ReviewsValues == {None, Some(0), Some(128)}

\* _extract_address: match.group(1).strip(), which may be empty, or None
AddressValues == {None, Some(""), Some("12 Rue de Paris")}

\* _extract_website: an absolute URL or None
WebsiteValues == {None, Some("https://roma.example")}

\* _extract_phone: a non-empty digit string or None
PhoneValues == {None, Some("38733123456")}

\* _extract_categories: a one-element list or None
CategoriesValues == {None, Some(<<"Restaurant">>)}

RenderedSets ==
    [name : NameValues, rating : RatingValues, reviews_count : ReviewsValues,
     address : AddressValues, website : WebsiteValues, phone : PhoneValues,
     categories : CategoriesValues]

\* _extract_from_app_init_state / _extract_legacy_blob: every key is set only
\* from a truthy value, except place_id (schema A stores any str, also "")
\* and website (blob[7][0] is stored unchecked).
InitDataSets ==
    [name : {None, Some("Legacy Roma")},
     place_id : {None, Some(""), Some("0x1:0x2")},
     coordinates : {None, Some([latitude |-> 43, longitude |-> 18])},
     rating : {None, Some(38)},
     reviews_count : {None, Some(77)},
     website : {None, Some(""), Some("http://legacy.example")},
     address : {None, Some("Legacy Street 1")},
     categories : {None, Some(<<"Hotel">>)}]

EmptyRendered ==
    [name |-> None, rating |-> None, reviews_count |-> None, address |-> None,
     website |-> None, phone |-> None, categories |-> None]

EmptyInitData ==
    [name |-> None, place_id |-> None, coordinates |-> None, rating |-> None,
     reviews_count |-> None, website |-> None, address |-> None,
     categories |-> None]

\* place_details = {} : no key set
EmptyDetails ==
    [name |-> None, place_id |-> None, coordinates |-> None, address |-> None,
     rating |-> None, reviews_count |-> None, categories |-> None,
     website |-> None, phone |-> None]

\* "if not x: x = init_data.get(key)" (lines 254-265), per type of x
FallbackStr(x, y) == IF TruthyStr(x) THEN x ELSE y

FallbackNum(x, y) == IF TruthyNum(x) THEN x ELSE y

FallbackList(x, y) == IF TruthyList(x) THEN x ELSE y

\* lines 267-286: a key is set only when its guard holds
KeepStr(x) == IF TruthyStr(x) THEN x ELSE None

KeepList(x) == IF TruthyList(x) THEN x ELSE None

KeepObj(x) == IF TruthyObj(x) THEN x ELSE None

\* mutant: a missing number is stored as 0
KeepNotNoneDefault(x) == IF x = None THEN Some(0) ELSE x

\* "if rating is not None" / "if reviews_count is not None"
KeepNotNone(x) == x

\* "return place_details if place_details else None" (line 288)
ReturnDetails(place_details) ==
    IF place_details = EmptyDetails THEN None ELSE Some(place_details)

\* extract_place_data(html_content): None for empty markup or when no key
\* was set, else Some(place_details)
extract_place_data(html) ==
    IF html = None THEN None
    ELSE LET r == html[1].rendered
             init_data == html[1].init
             name == FallbackStr(r.name, init_data.name)
             rating == FallbackNum(r.rating, init_data.rating)
             reviews_count == FallbackNum(r.reviews_count, init_data.reviews_count)
             address == FallbackStr(r.address, init_data.address)
             website == FallbackStr(r.website, init_data.website)
             categories == FallbackList(r.categories, init_data.categories)
             place_details ==
                 [name |-> KeepStr(name),
                  place_id |-> KeepStr(init_data.place_id),
                  coordinates |-> KeepObj(init_data.coordinates),
                  address |-> KeepStr(address),
                  rating |-> KeepNotNone(rating),
                  reviews_count |-> KeepNotNone(reviews_count),
                  categories |-> KeepList(categories),
                  website |-> KeepStr(website),
                  phone |-> KeepStr(r.phone)]
         IN ReturnDetails(place_details)

(***************************************************************************)
(* scraper.py, try_load_website.  The probe navigation either returns a    *)
(* response with a status, returns no response, raises the driver's        *)
(* timeout error, or raises another exception.  Exception texts are        *)
(* sequences of characters, so that str(e).lower() and the substring test  *)
(* are computed as the code computes them.                                 *)
(***************************************************************************)
\* "Access Denied"
MsgAccessDenied == <<"A", "c", "c", "e", "s", "s", " ", "D", "e", "n", "i", "e", "d">>

\* "403 Forbidden"
MsgForbidden == <<"4", "0", "3", " ", "F", "o", "r", "b", "i", "d", "d", "e", "n">>

\* "PERMISSION"
MsgPermission == <<"P", "E", "R", "M", "I", "S", "S", "I", "O", "N">>

\* "Unauthorized"
MsgUnauthorized == <<"U", "n", "a", "u", "t", "h", "o", "r", "i", "z", "e", "d">>

\* "ERR_ACCESS_DENIED"
MsgErrAccessDenied == <<"E", "R", "R", "_", "A", "C", "C", "E", "S", "S", "_", "D", "E", "N", "I", "E", "D">>

\* "ERR_FAILED"
MsgErrFailed == <<"E", "R", "R", "_", "F", "A", "I", "L", "E", "D">>

\* "Timeout"
MsgTimeout == <<"T", "i", "m", "e", "o", "u", "t">>

\* ""
MsgEmpty == <<>>

ExceptionTexts ==
    {MsgAccessDenied, MsgForbidden, MsgPermission, MsgUnauthorized, MsgErrAccessDenied, MsgErrFailed, MsgTimeout, MsgEmpty}

KwForbidden == <<"f", "o", "r", "b", "i", "d", "d", "e", "n">>

KwPermission == <<"p", "e", "r", "m", "i", "s", "s", "i", "o", "n">>

KwAccessDenied == <<"a", "c", "c", "e", "s", "s", " ", "d", "e", "n", "i", "e", "d">>

KwUnauthorized == <<"u", "n", "a", "u", "t", "h", "o", "r", "i", "z", "e", "d">>

\* the keyword list of line 181
ForbiddenKeywords ==
    {KwForbidden, KwPermission, KwAccessDenied, KwUnauthorized}

\* str.lower() on one character
LowerChar(c) ==
    CASE c = "A" -> "a"
      [] c = "B" -> "b"
      [] c = "C" -> "c"
      [] c = "D" -> "d"
      [] c = "E" -> "e"
      [] c = "F" -> "f"
      [] c = "G" -> "g"
      [] c = "H" -> "h"
      [] c = "I" -> "i"
      [] c = "J" -> "j"
      [] c = "K" -> "k"
      [] c = "L" -> "l"
      [] c = "M" -> "m"
      [] c = "N" -> "n"
      [] c = "O" -> "o"
      [] c = "P" -> "p"
      [] c = "Q" -> "q"
      [] c = "R" -> "r"
      [] c = "S" -> "s"
      [] c = "T" -> "t"
      [] c = "U" -> "u"
      [] c = "V" -> "v"
      [] c = "W" -> "w"
      [] c = "X" -> "x"
      [] c = "Y" -> "y"
      [] c = "Z" -> "z"
      [] OTHER -> c

\* mutant: the text is matched without lower-casing it
LowerIdentity(text) == text

\* str.lower()
Lower(text) == [i \in 1..Len(text) |-> LowerChar(text[i])]

\* the Python test "keyword in text" on strings
Contains(text, keyword) ==
    \E i \in 0..(Len(text) - Len(keyword)) :
        \A j \in 1..Len(keyword) : text[i + j] = keyword[j]

StatusCodes == {200, 204, 301, 399, 400, 401, 403, 404, 451, 500, 503}

\* what page.goto(website_url, ...) does at line 159
ProbeNavs ==
    {[kind |-> "response", status |-> c, text |-> <<>>] : c \in StatusCodes}
    \cup {[kind |-> "no_response", status |-> 0, text |-> <<>>]}
    \cup {[kind |-> k, status |-> 0, text |-> t] :
             k \in {"timeout", "exception"}, t \in ExceptionTexts}

\* mutant: 451 is not in the forbidden list
ClassifyStatusNo451(status_code) ==
    IF status_code \in {403, 401} THEN "forbidden"
    ELSE IF status_code >= 400 THEN "error"
    ELSE "accessible"

\* lines 162-170: the status returned for a response
ClassifyStatus(status_code) ==
    IF status_code \in {403, 401, 451} THEN "forbidden"
    ELSE IF status_code >= 400 THEN "error"
    ELSE "accessible"

\* lines 180-184: the status returned for an exception other than a timeout
ClassifyException(text) ==
    IF \E keyword \in ForbiddenKeywords : Contains(Lower(text), keyword)
    THEN "forbidden"
    ELSE "error"

\* try_load_website(page, website_url): the status returned for one outcome
\* of the navigation; every outcome is handled, none leaves the function
try_load_website(nav) ==
    CASE nav.kind = "response" -> ClassifyStatus(nav.status)
      [] nav.kind = "no_response" -> "error"
      [] nav.kind = "timeout" -> "timeout"
      [] nav.kind = "exception" -> ClassifyException(nav.text)

(***************************************************************************)
(* extractor.py, the legacy blob at initial_data[3][6].  A string is the   *)
(* sequence of its characters.  Of the positions of the blob the model     *)
(* keeps [10] (place_id) and [11] (name); the others hold null.  The blob  *)
(* is reached only with an empty result dict (line 40), so that setdefault *)
(* sets the key.                                                           *)
(***************************************************************************)
\* length of the longest name a blob holds
MaxNameLen == 2

\* characters of a name: a letter and the four characters of the prefix
NameChars == {"a", ")", "]", "}", "'"}

Names == UNION {[1..k -> NameChars] : k \in 0..MaxNameLen}

\* the blob as a list: null or a string at [10] and at [11]
LegacyBlobs ==
    {[place_id |-> p, name |-> nm] :
        p \in {None, Some(<<"0", "x", "1">>)},
        nm \in {None} \cup {Some(t) : t \in Names}}

\* truthiness of a JSON value that is null or a string
TruthyText(x) == x # None /\ x[1] # <<>>

EmptyLegacy == [place_id |-> None, name |-> None]

\* _extract_legacy_blob(blob, result) on an empty result (lines 58-61)
extract_legacy_blob(b) ==
    [place_id |-> IF TruthyText(b.place_id) THEN b.place_id ELSE None,
     name |-> IF TruthyText(b.name) THEN b.name ELSE None]

JsonNull == <<"n", "u", "l", "l">>

\* the JSON text of null or of a string none of whose characters is escaped
JsonValue(x) == IF x = None THEN JsonNull ELSE <<"\"">> \o x[1] \o <<"\"">>

RECURSIVE Nulls(_)
\* k times "null,"
Nulls(k) == IF k = 0 THEN <<>> ELSE JsonNull \o <<",">> \o Nulls(k - 1)

\* the JSON text of the blob: a list of 12 elements
BlobText(b) ==
    <<"[">> \o Nulls(10) \o JsonValue(b.place_id) \o <<",">>
            \o JsonValue(b.name) \o <<"]">>

\* the JSON text of a list that holds the blob at [6]
WrapperText(b) == <<"[">> \o Nulls(6) \o BlobText(b) \o <<"]">>

\* ")]}'"
FramingPrefix == <<")", "]", "}", "'">>

\* the string form of the blob: prefix, newline, JSON body
StringForm(b) == FramingPrefix \o <<"\n">> \o WrapperText(b)

\* json.loads(inner_str)[6] for the texts of the model: the blob whose
\* wrapper the text is; None stands for JSONDecodeError
ParsedBlob(text) ==
    IF \E b \in LegacyBlobs : WrapperText(b) = text
    THEN Some(CHOOSE b \in LegacyBlobs : WrapperText(b) = text)
    ELSE None

\* str.startswith
StartsWith(s, prefix) ==
    Len(s) >= Len(prefix) /\ SubSeq(s, 1, Len(prefix)) = prefix

\* s.split(sep, 1)[1] for an s that contains sep: what follows the first
\* occurrence
AfterFirst(s, sep) ==
    LET at(i) == \A j \in 1..Len(sep) : s[i + j] = sep[j]
        first == CHOOSE i \in 0..(Len(s) - Len(sep)) :
                     at(i) /\ \A h \in 0..(i - 1) : ~at(h)
    IN SubSeq(s, first + Len(sep) + 1, Len(s))

RECURSIVE LStrip(_, _)
\* str.lstrip(chars)
LStrip(s, chars) ==
    IF s # <<>> /\ Head(s) \in chars THEN LStrip(Tail(s), chars) ELSE s

RECURSIVE RStrip(_, _)
\* str.rstrip(chars)
RStrip(s, chars) ==
    IF s # <<>> /\ s[Len(s)] \in chars
    THEN RStrip(SubSeq(s, 1, Len(s) - 1), chars)
    ELSE s

Whitespace == {" ", "\n", "\t", "\r"}

\* str.strip()
Strip(s) == RStrip(LStrip(s, Whitespace), Whitespace)

\* _try_parse_legacy_string(blob_str, result) on an empty result; every
\* exception is swallowed (line 98)
try_parse_legacy_string(blob_str) ==
    LET unframed ==
            IF StartsWith(blob_str, FramingPrefix)
            THEN LStrip(IF Contains(blob_str, <<")", "'">>)
                        THEN AfterFirst(blob_str, <<")", "'">>)
                        ELSE SubSeq(blob_str, 5, Len(blob_str)),
                        {"\n"})
            ELSE blob_str
        inner_str == Strip(unframed)
    IN IF StartsWith(inner_str, <<"[">>) \/ StartsWith(inner_str, <<"{">>)
       THEN LET parsed == ParsedBlob(inner_str)
            IN IF parsed = None THEN EmptyLegacy ELSE extract_legacy_blob(parsed[1])
       ELSE EmptyLegacy

\* lines 43-47: the value at initial_data[3][6] is a list or a string
LegacyFields(value) ==
    IF value.kind = "list"
    THEN extract_legacy_blob(value.data)
    ELSE try_parse_legacy_string(value.data)

(***************************************************************************)
(* scraper.py, scrape_google_maps.  Links are numbered: link i stands for  *)
(* the URL of the i-th detail page the search can show.                    *)
(***************************************************************************)
\* number of distinct detail-page links the feed can show
NumLinks == 2

\* number of distinct scrollHeight values the feed can report
MaxHeight == 2

\* number of links of the longest run whose pacing is followed
MaxRun == 21

MAX_SCROLL_ATTEMPTS_WITHOUT_NEW_LINKS == 15

BREAK_INTERVAL == 10

\* max_places=None, the default of the signature
NoMax == -1

Links == 1..NumLinks

Heights == 1..MaxHeight

MaxPlacesArgs == {NoMax} \cup (0..NumLinks)

\* the values website is overwritten with at lines 462, 466, 470, 476
SentinelForbidden == "Potreban pristup"

SentinelTimeout == "Timeout"

\* 'Greška pri učitavanju'
SentinelError == "Greska pri ucitavanju"

\* 'Greška pri provjeri'
SentinelCheck == "Greska pri provjeri"

Sentinels == {SentinelForbidden, SentinelTimeout, SentinelError, SentinelCheck}

\* what browser.close() can do: return, or raise with the connection
\* still up or already gone
CloseResults == {"closed", "raised_connected", "raised_disconnected"}

\* the exception classes the run-level handlers tell apart (lines 497, 499)
ExceptionKinds == {"timeout", "other"}

\* browser.close(): the connection state it leaves
CloseBrowser(b, c) == IF c = "raised_connected" THEN b ELSE "disconnected"

\* a failing driver call may come from, or cause, a lost browser connection
AfterFailure(b, crash) == IF crash THEN "disconnected" ELSE b

\* set(list(place_links)[:max_places]): the order of a set is arbitrary, so
\* any max_places of its elements may be the ones kept
Truncations(links, n) == {t \in SUBSET links : Cardinality(t) = n}

\* detail pages without a website: empty markup, a page on which nothing is
\* found, and a named place
BasicPages ==
    {None,
     Some([rendered |-> EmptyRendered, init |-> EmptyInitData]),
     Some([rendered |-> [EmptyRendered EXCEPT !.name = Some("Cafe Roma")], init |-> EmptyInitData])}

\* detail pages of every kind the per-item code tells apart: empty markup,
\* a page on which nothing is found, a page with only a rendered rating of
\* 0.0, a named place without website, one with a rendered website, and
\* pages whose website comes from the legacy blob only ('N/A' or a URL)
DetailPages ==
    {None,
     Some([rendered |-> EmptyRendered, init |-> EmptyInitData]),
     Some([rendered |-> [EmptyRendered EXCEPT !.rating = Some(0)], init |-> EmptyInitData]),
     Some([rendered |-> [EmptyRendered EXCEPT !.name = Some("Cafe Roma")], init |-> EmptyInitData]),
     Some([rendered |-> [EmptyRendered EXCEPT !.name = Some("Cafe Roma"),
                                              !.website = Some("https://roma.example")],
           init |-> EmptyInitData]),
     Some([rendered |-> EmptyRendered, init |-> [EmptyInitData EXCEPT !.website = Some("N/A")]]),
     Some([rendered |-> EmptyRendered,
           init |-> [EmptyInitData EXCEPT !.website = Some("http://legacy.example")]])}

IdleNav == [kind |-> "idle", status |-> 0, text |-> <<>>]

NoBlob == [place_id |-> None, name |-> None]

fnIdle ==
    /\ fn = "idle"
    /\ html_content = None
    /\ place_data = None
    /\ probe_nav = IdleNav
    /\ website_status = "none"
    /\ blob = NoBlob
    /\ legacy_fields = None

\* no scroll iteration has read the height yet
NoIteration == [end_marker |-> FALSE, unchanged |-> FALSE]

\* lines 201-204, with every argument value of max_places
Init ==
    /\ pc = "launch"
    /\ max_places \in MaxPlacesArgs
    /\ browser = "none"
    /\ place_links = {}
    /\ scroll_attempts_no_new = 0
    /\ last_height = 0
    /\ todo = {}
    /\ count = 0
    /\ results = <<>>
    /\ outcome = "running"
    /\ scroll_exit = "none"
    /\ single_result = FALSE
    /\ attempts = [l \in Links |-> 0]
    /\ failed = {}
    /\ item_log = <<>>
    /\ caught = "none"
    /\ close_calls = 0
    /\ close_log = <<>>
    /\ in_flight = {}
    /\ last_iter = NoIteration
    /\ stalled = 0
    /\ frozen_iters = 0
    /\ breaks = {}
    /\ extended = {}
    /\ pages = BasicPages
    /\ feed = 0
    /\ fnIdle

\* lines 208-216: p.chromium.launch
Launch ==
    /\ pc = "launch"
    /\ \/ /\ browser' = "connected"
          /\ pc' = "setup"
          /\ UNCHANGED caught
       \/ \E k \in ExceptionKinds :
          /\ caught' = k
          /\ pc' = "finally"
          /\ UNCHANGED browser
    /\ UNCHANGED <<max_places, place_links, scroll_attempts_no_new, last_height,
                   todo, count, results, outcome, scroll_exit, single_result,
                   attempts, failed, item_log, close_calls, close_log>>
    /\ UNCHANGED <<scrollGhosts, paceVars, pages, feed, fnVars>>

\* lines 217-347: new_context, new_page, the page check, add_init_script,
\* the search navigation and the consent form (whose errors are swallowed)
Setup ==
    /\ pc = "setup"
    /\ \/ /\ pc' = "wait_feed"
          /\ UNCHANGED <<browser, caught, close_calls, close_log>>
       \/ \E k \in ExceptionKinds, crash \in BOOLEAN :
          /\ caught' = k
          /\ browser' = AfterFailure(browser, crash)
          /\ pc' = "finally"
          /\ UNCHANGED <<close_calls, close_log>>
       \/ \E c \in CloseResults :
          \* "if not page": close the browser, then raise
          /\ browser' = CloseBrowser(browser, c)
          /\ close_calls' = close_calls + 1
          /\ close_log' = Append(close_log, c)
          /\ caught' = "other"
          /\ pc' = "finally"
    /\ UNCHANGED <<max_places, place_links, scroll_attempts_no_new, last_height,
                   todo, count, results, outcome, scroll_exit, single_result,
                   attempts, failed, item_log>>
    /\ UNCHANGED <<scrollGhosts, paceVars, pages, feed, fnVars>>

\* lines 353-363: wait for the feed; on timeout either the single-place
\* branch or the feed-not-found return
WaitFeed ==
    /\ pc = "wait_feed"
    /\ \/ /\ pc' = "feed_count"
          /\ UNCHANGED <<browser, caught, close_calls, close_log, place_links,
                         single_result>>
       \/ \E url \in Links :
          \* PlaywrightTimeoutError and "/maps/place/" in page.url
          /\ place_links' = place_links \cup {url}
          /\ single_result' = TRUE
          /\ pc' = "feed_count"
          /\ UNCHANGED <<browser, caught, close_calls, close_log>>
       \/ \E c \in CloseResults :
          \* PlaywrightTimeoutError on another URL: close, return []
          /\ browser' = CloseBrowser(browser, c)
          /\ close_calls' = close_calls + 1
          /\ close_log' = Append(close_log, c)
          /\ caught' = IF c = "closed" THEN "none" ELSE "other"
          /\ pc' = "finally"
          /\ UNCHANGED <<place_links, single_result>>
       \/ \E crash \in BOOLEAN :
          \* any other exception of wait_for_selector
          /\ caught' = "other"
          /\ browser' = AfterFailure(browser, crash)
          /\ pc' = "finally"
          /\ UNCHANGED <<close_calls, close_log, place_links, single_result>>
    /\ UNCHANGED <<max_places, scroll_attempts_no_new, last_height, todo, count,
                   results, outcome, scroll_exit, attempts, failed, item_log>>
    /\ UNCHANGED <<scrollGhosts, paceVars, pages, feed, fnVars>>

\* lines 365-366: is there a feed element, and its first scrollHeight
FeedCount ==
    /\ pc = "feed_count"
    /\ \/ \E h \in Heights :
          /\ last_height' = h
          /\ pc' = "scroll"
          /\ UNCHANGED <<browser, caught, todo>>
       \/ /\ pc' = "items"
          /\ todo' = place_links
          /\ UNCHANGED <<browser, caught, last_height>>
       \/ \E k \in ExceptionKinds, crash \in BOOLEAN :
          /\ caught' = k
          /\ browser' = AfterFailure(browser, crash)
          /\ pc' = "finally"
          /\ UNCHANGED <<last_height, todo>>
    /\ UNCHANGED <<max_places, place_links, scroll_attempts_no_new, count,
                   results, outcome, scroll_exit, single_result, attempts,
                   failed, item_log, close_calls, close_log>>
    /\ UNCHANGED <<scrollGhosts, paceVars, pages, feed, fnVars>>

\* mutant: "if max_places and len(place_links) >= max_places"
MaxReachedTruthy(links) ==
    max_places # NoMax /\ max_places # 0 /\ Cardinality(links) >= max_places

\* "max_places is not None and len(place_links) >= max_places" (line 394)
MaxReached(links) == max_places # NoMax /\ Cardinality(links) >= max_places

\* mutant: the end marker is never looked for
EndMarkerIgnored(end_marker) == FALSE

\* "if await page.locator(end_marker_xpath).count() > 0" (line 404)
EndMarkerSeen(end_marker) == end_marker

\* mutant: the counter survives a change of the scroll height
AfterHeightChangeKept(n) == n

\* "scroll_attempts_no_new = 0 # Reset if scroll height changed" (line 420)
AfterHeightChange(n) == 0

\* mutant: ">" for ">="
NoProgressLimitExceeded(n) == n > MAX_SCROLL_ATTEMPTS_WITHOUT_NEW_LINKS

\* "if scroll_attempts_no_new >= MAX_SCROLL_ATTEMPTS_WITHOUT_NEW_LINKS" (413)
NoProgressLimit(n) == n >= MAX_SCROLL_ATTEMPTS_WITHOUT_NEW_LINKS

\* lines 399-420: what one iteration does after the max_places check, given
\* the height and the end marker on the page; <<counter, height, exit>>.
\* The end marker is looked for only when the height is unchanged.
ProgressCheck(new_links_found, new_height, end_marker) ==
    IF new_height = last_height
    THEN IF EndMarkerSeen(end_marker)
         THEN <<scroll_attempts_no_new, last_height, "end">>
         ELSE IF ~new_links_found
              THEN IF NoProgressLimit(scroll_attempts_no_new + 1)
                   THEN <<scroll_attempts_no_new + 1, last_height, "no_progress">>
                   ELSE <<scroll_attempts_no_new + 1, last_height, "none">>
              ELSE <<0, last_height, "none">>
    ELSE <<AfterHeightChange(scroll_attempts_no_new), new_height, "none">>

\* what the page shows to one iteration: anything while the feed is live;
\* once it is stuck, no link that is not collected yet, the same height
\* every time and no end marker
OfferedLinks == IF feed = 0 THEN SUBSET Links ELSE SUBSET place_links

OfferedHeights == IF feed = 0 THEN Heights ELSE {feed}

OfferedMarkers == IF feed = 0 THEN BOOLEAN ELSE {FALSE}

\* the driver calls of an iteration can raise; the stuck feed is studied
\* with calls that return
DriverMayRaise == feed = 0

\* lines 368-420: one iteration of the scroll loop
ScrollIteration ==
    /\ pc = "scroll"
    /\ \/ \E k \in ExceptionKinds, crash \in BOOLEAN :
          \* a driver call before the links are merged raises (lines 372-388)
          /\ DriverMayRaise
          /\ caught' = k
          /\ browser' = AfterFailure(browser, crash)
          /\ pc' = "finally"
          /\ UNCHANGED <<place_links, scroll_attempts_no_new, last_height,
                         todo, scroll_exit, scrollGhosts>>
       \/ \E current_links \in OfferedLinks :
          LET merged == place_links \cup current_links
              new_links_found == (current_links \ place_links) # {}
          IN IF MaxReached(merged)
             THEN \E kept \in Truncations(merged, max_places) :
                  /\ place_links' = kept
                  /\ scroll_exit' = "max"
                  /\ pc' = "items"
                  /\ todo' = kept
                  /\ last_iter' = NoIteration
                  /\ UNCHANGED <<browser, caught, scroll_attempts_no_new,
                                 last_height, stalled, frozen_iters>>
             ELSE \/ \E new_height \in OfferedHeights, end_marker \in OfferedMarkers :
                     LET next == ProgressCheck(new_links_found, new_height, end_marker)
                     IN /\ place_links' = merged
                        /\ scroll_attempts_no_new' = next[1]
                        /\ last_height' = next[2]
                        /\ scroll_exit' = next[3]
                        /\ pc' = IF next[3] = "none" THEN "scroll" ELSE "items"
                        /\ todo' = IF next[3] = "none" THEN todo ELSE merged
                        /\ last_iter' = [end_marker |-> end_marker,
                                         unchanged |-> new_height = last_height]
                        /\ stalled' = IF new_height = last_height /\ ~new_links_found
                                      THEN stalled + 1
                                      ELSE 0
                        /\ frozen_iters' = IF feed = 0 THEN frozen_iters
                                           ELSE frozen_iters + 1
                        /\ UNCHANGED <<browser, caught>>
                  \/ \E k \in ExceptionKinds, crash \in BOOLEAN :
                     \* reading the height or the end marker raises (400, 404)
                     /\ DriverMayRaise
                     /\ place_links' = merged
                     /\ caught' = k
                     /\ browser' = AfterFailure(browser, crash)
                     /\ pc' = "finally"
                     /\ UNCHANGED <<scroll_attempts_no_new, last_height, todo,
                                    scroll_exit, scrollGhosts>>
    /\ UNCHANGED <<max_places, count, results, outcome, single_result, attempts,
                   failed, item_log, close_calls, close_log>>
    /\ UNCHANGED <<paceVars, pages, feed, fnVars>>

\* the feed stops changing: from now on it reports one height, shows no
\* link that is not collected yet and no end marker
Freeze ==
    /\ pc = "scroll"
    /\ feed = 0
    /\ feed' \in Heights
    /\ UNCHANGED <<pc, max_places, browser, place_links, scroll_attempts_no_new,
                   last_height, todo, count, results, outcome, scroll_exit,
                   single_result, attempts, failed, item_log, caught,
                   close_calls, close_log>>
    /\ UNCHANGED <<scrollGhosts, paceVars, pages, fnVars>>

\* "if website_url and website_url not in ['', 'N/A', None]" (line 453)
ShouldProbe(website_url) ==
    TruthyStr(website_url) /\ website_url[1] \notin {"", "N/A"}

\* "if place_data:" (line 448): neither None nor an empty dict
HasData(pd) == pd # None /\ pd[1] # EmptyDetails

\* mutant: the URL is not kept when website is overwritten
MarkedNoOriginal(record, sentinel, website_url) ==
    [record EXCEPT !.website = Some(sentinel)]

\* lines 462-463, 466-467, 470-471, 476-477: website becomes the sentinel
\* and the URL moves to original_website
Marked(record, sentinel, website_url) ==
    [record EXCEPT !.website = Some(sentinel), !.original_website = website_url]

\* mutant: a per-item exception reaches the run-level handler
OnItemExceptionAborts == "finally"

\* lines 488-493: both per-item handlers only print, the for-loop goes on
OnItemException == "items"

\* lines 449-477: the record appended for place_data, given the status the
\* probe returned ("none": no probe ran; "raised": the probe raised)
MakeRecord(details, link, status) ==
    LET base == [name |-> details.name, place_id |-> details.place_id,
                 coordinates |-> details.coordinates, address |-> details.address,
                 rating |-> details.rating, reviews_count |-> details.reviews_count,
                 categories |-> details.categories, website |-> details.website,
                 phone |-> details.phone, link |-> link, original_website |-> None]
        marked(sentinel) == Marked(base, sentinel, details.website)
    IN CASE status = "forbidden" -> marked(SentinelForbidden)
         [] status = "timeout" -> marked(SentinelTimeout)
         [] status = "error" -> marked(SentinelError)
         [] status = "raised" -> marked(SentinelCheck)
         [] OTHER -> base

\* mutant: the record is appended in the probe branch and again after it
AppendedTwice(rs, record) == Append(Append(rs, record), record)

\* "results.append(place_data)" (line 480)
Appended(rs, record) == Append(rs, record)

\* lines 445-483: results and the probe log after a page was read
AfterExtract(link, html, pd, status) ==
    IF ~HasData(pd)
    THEN /\ results' = results
         /\ item_log' = item_log
    ELSE /\ results' = Appended(results, MakeRecord(pd[1], link, status))
         /\ item_log' = Append(item_log, [link |-> link, html |-> html,
                                          details |-> pd[1], status |-> status])

\* mutant: "(place_count + 1) % BREAK_INTERVAL == 0", a zero-based count
TakesBreakZeroBased(place_count) == (place_count + 1) % BREAK_INTERVAL = 0

\* "if place_count > 0 and place_count % BREAK_INTERVAL == 0" (line 126)
TakesBreak(place_count) == place_count > 0 /\ place_count % BREAK_INTERVAL = 0

\* lines 125-136 of smart_delay: the break, and inside its branch the
\* extended break when random.random() < OCCASIONAL_LONG_BREAK_CHANCE
smart_delay(place_count) ==
    IF TakesBreak(place_count)
    THEN /\ breaks' = breaks \cup {place_count}
         /\ \E long \in BOOLEAN :
            extended' = IF long THEN extended \cup {place_count} ELSE extended
    ELSE UNCHANGED <<breaks, extended>>

\* mutant: the bodies are started as tasks that are not awaited
BodyReturnedAlways(links) == TRUE

\* "for link in place_links:" with an awaited body (lines 428-493): the
\* next link is fetched when the body of the previous one has returned
BodyReturned(links) == links = {}

\* lines 428-435: the head of the for-loop for the next link, up to the
\* delay that precedes the try block
BeginLink ==
    /\ pc = "items"
    /\ BodyReturned(in_flight)
    /\ \E link \in todo :
       /\ todo' = todo \ {link}
       /\ in_flight' = in_flight \cup {link}
    /\ count' = count + 1
    /\ smart_delay(count + 1)
    /\ UNCHANGED <<pc, max_places, browser, place_links, scroll_attempts_no_new,
                   last_height, results, outcome, scroll_exit, single_result,
                   attempts, failed, item_log, caught, close_calls, close_log>>
    /\ UNCHANGED <<scrollGhosts, pages, feed, fnVars>>

\* lines 437-493: the try block of the for-loop for the link begun.  Both
\* handlers (PlaywrightTimeoutError, Exception) leave the same state.
ProcessLink ==
    /\ pc = "items"
    /\ \E link \in in_flight :
       /\ in_flight' = in_flight \ {link}
       /\ attempts' = [attempts EXCEPT ![link] = @ + 1]
       /\ \/ \E crash \in BOOLEAN :
             \* page.goto or page.content raises
             /\ failed' = failed \cup {link}
             /\ browser' = AfterFailure(browser, crash)
             /\ pc' = OnItemException
             /\ UNCHANGED <<results, item_log>>
          \/ /\ browser = "connected"
             /\ \E html \in pages :
                LET pd == extract_place_data(html)
                IN IF HasData(pd) /\ ShouldProbe(pd[1].website)
                   THEN \E nav \in ProbeNavs, crash \in BOOLEAN :
                        /\ AfterExtract(link, html, pd, try_load_website(nav))
                        /\ browser' = IF nav.kind \in {"timeout", "exception"}
                                      THEN AfterFailure(browser, crash)
                                      ELSE browser
                   ELSE /\ AfterExtract(link, html, pd, "none")
                        /\ UNCHANGED browser
             /\ UNCHANGED <<pc, failed>>
    /\ UNCHANGED <<max_places, place_links, scroll_attempts_no_new, last_height,
                   todo, count, outcome, scroll_exit, single_result, caught,
                   close_calls, close_log, breaks, extended>>
    /\ UNCHANGED <<scrollGhosts, pages, feed, fnVars>>

\* lines 427-435 in a run over the links 1..n, taken in numerical order;
\* the try block (lines 437-493), which assigns neither count nor anything
\* smart_delay reads, is left out
PaceLink ==
    /\ pc = "items"
    /\ todo # {}
    /\ LET link == CHOOSE l \in todo : \A m \in todo : l <= m
       IN todo' = todo \ {link}
    /\ count' = count + 1
    /\ smart_delay(count + 1)
    /\ UNCHANGED <<pc, max_places, browser, place_links, scroll_attempts_no_new,
                   last_height, in_flight, results, outcome, scroll_exit,
                   single_result, attempts, failed, item_log, caught,
                   close_calls, close_log>>
    /\ UNCHANGED <<scrollGhosts, pages, feed, fnVars>>

\* line 495: the for-loop is over, close the browser
FinishItems ==
    /\ pc = "items"
    /\ todo = {}
    /\ in_flight = {}
    /\ \E c \in CloseResults :
       /\ browser' = CloseBrowser(browser, c)
       /\ close_log' = Append(close_log, c)
       /\ caught' = IF c = "closed" THEN caught ELSE "other"
    /\ close_calls' = close_calls + 1
    /\ pc' = "finally"
    /\ UNCHANGED <<max_places, place_links, scroll_attempts_no_new, last_height,
                   todo, count, results, outcome, scroll_exit, single_result,
                   attempts, failed, item_log>>
    /\ UNCHANGED <<scrollGhosts, paceVars, pages, feed, fnVars>>

\* mutant: the finally block does not close the browser
NeedsCloseNever(b) == FALSE

\* mutant: the finally block closes the browser whatever its state
NeedsCloseAlways(b) == TRUE

\* "if browser and browser.is_connected()" (line 505)
NeedsClose(b) == b = "connected"

\* lines 503-509: the finally block, then return results; an exception of
\* the close in the finally block has no handler and leaves the function
Finally ==
    /\ pc = "finally"
    /\ IF NeedsClose(browser)
       THEN \E c \in CloseResults :
            /\ browser' = CloseBrowser(browser, c)
            /\ close_calls' = close_calls + 1
            /\ close_log' = Append(close_log, c)
            /\ outcome' = IF c = "closed" THEN "returned" ELSE "raised"
       ELSE /\ outcome' = "returned"
            /\ UNCHANGED <<browser, close_calls, close_log>>
    /\ pc' = "done"
    /\ UNCHANGED <<max_places, place_links, scroll_attempts_no_new, last_height,
                   todo, count, results, scroll_exit, single_result, attempts,
                   failed, item_log, caught>>
    /\ UNCHANGED <<scrollGhosts, paceVars, pages, feed, fnVars>>

Next ==
    \/ Launch
    \/ Setup
    \/ WaitFeed
    \/ FeedCount
    \/ ScrollIteration
    \/ BeginLink
    \/ ProcessLink
    \/ FinishItems
    \/ Finally

Spec == Init /\ [][Next]_vars

(***************************************************************************)
(* Link collection on its own, with a feed that can stop changing.  The    *)
(* scroll loop is a "while True" whose body is awaited call by call, so an *)
(* iteration that can run does run as long as the driver calls return.     *)
(***************************************************************************)
NextScroll ==
    \/ Launch
    \/ Setup
    \/ WaitFeed
    \/ FeedCount
    \/ ScrollIteration
    \/ Freeze

SpecScroll == Init /\ [][NextScroll]_vars /\ WF_vars(ScrollIteration)

(***************************************************************************)
(* The per-item loop on its own: the run at the end of link collection     *)
(* (launched, no bound, end marker seen in the first iteration, any set of *)
(* links collected), with detail pages of every kind.  The loop reads      *)
(* none of the scroll loop's variables.                                    *)
(***************************************************************************)
InitItems ==
    /\ pc = "items"
    /\ max_places = NoMax
    /\ browser = "connected"
    /\ place_links \in SUBSET Links
    /\ todo = place_links
    /\ scroll_attempts_no_new = 0
    /\ last_height = 1
    /\ count = 0
    /\ results = <<>>
    /\ outcome = "running"
    /\ scroll_exit = "end"
    /\ single_result = FALSE
    /\ attempts = [l \in Links |-> 0]
    /\ failed = {}
    /\ item_log = <<>>
    /\ caught = "none"
    /\ close_calls = 0
    /\ close_log = <<>>
    /\ in_flight = {}
    /\ last_iter = [end_marker |-> TRUE, unchanged |-> TRUE]
    /\ stalled = 0
    /\ frozen_iters = 0
    /\ breaks = {}
    /\ extended = {}
    /\ pages = DetailPages
    /\ feed = 0
    /\ fnIdle

NextItems ==
    \/ BeginLink
    \/ ProcessLink
    \/ FinishItems
    \/ Finally

SpecItems == InitItems /\ [][NextItems]_vars

(***************************************************************************)
(* The pacing of the per-item loop on its own, in runs long enough for     *)
(* breaks: the run at the end of link collection with the links 1..n.      *)
(***************************************************************************)
InitPacing ==
    /\ pc = "items"
    /\ max_places = NoMax
    /\ browser = "connected"
    /\ \E n \in 0..MaxRun : place_links = 1..n
    /\ todo = place_links
    /\ scroll_attempts_no_new = 0
    /\ last_height = 1
    /\ count = 0
    /\ results = <<>>
    /\ outcome = "running"
    /\ scroll_exit = "end"
    /\ single_result = FALSE
    /\ attempts = [l \in Links |-> 0]
    /\ failed = {}
    /\ item_log = <<>>
    /\ caught = "none"
    /\ close_calls = 0
    /\ close_log = <<>>
    /\ in_flight = {}
    /\ last_iter = [end_marker |-> TRUE, unchanged |-> TRUE]
    /\ stalled = 0
    /\ frozen_iters = 0
    /\ breaks = {}
    /\ extended = {}
    /\ pages = {}
    /\ feed = 0
    /\ fnIdle

NextPacing == PaceLink

SpecPacing == InitPacing /\ [][NextPacing]_vars

(***************************************************************************)
(* The two pure functions on their own: extract_place_data on every        *)
(* combination of values its eight sources can yield, try_load_website on  *)
(* every outcome of the probe navigation.                                  *)
(***************************************************************************)
runIdle ==
    /\ pc = "harness"
    /\ max_places = NoMax
    /\ browser = "none"
    /\ place_links = {}
    /\ todo = {}
    /\ scroll_attempts_no_new = 0
    /\ last_height = 0
    /\ count = 0
    /\ results = <<>>
    /\ outcome = "running"
    /\ scroll_exit = "none"
    /\ single_result = FALSE
    /\ attempts = [l \in Links |-> 0]
    /\ failed = {}
    /\ item_log = <<>>
    /\ caught = "none"
    /\ close_calls = 0
    /\ close_log = <<>>
    /\ in_flight = {}
    /\ last_iter = NoIteration
    /\ stalled = 0
    /\ frozen_iters = 0
    /\ breaks = {}
    /\ extended = {}
    /\ pages = {}
    /\ feed = 0

InitFn ==
    /\ runIdle
    /\ place_data = None
    /\ website_status = "none"
    /\ legacy_fields = None
    /\ \/ /\ fn = "extract"
          /\ \/ html_content = None
             \/ \E r \in RenderedSets, i \in InitDataSets :
                html_content = Some([rendered |-> r, init |-> i])
          /\ probe_nav = IdleNav
          /\ blob = NoBlob
       \/ /\ fn = "probe"
          /\ html_content = None
          /\ probe_nav \in ProbeNavs
          /\ blob = NoBlob
       \/ /\ fn = "legacy"
          /\ html_content = None
          /\ probe_nav = IdleNav
          /\ blob \in LegacyBlobs

\* place_data = extractor.extract_place_data(html_content)
ApplyExtract ==
    /\ fn = "extract"
    /\ place_data' = extract_place_data(html_content)
    /\ fn' = "extracted"
    /\ UNCHANGED <<html_content, probe_nav, website_status, blob, legacy_fields>>
    /\ UNCHANGED runVars

\* website_status = await try_load_website(page, website_url)
ApplyProbe ==
    /\ fn = "probe"
    /\ website_status' = try_load_website(probe_nav)
    /\ fn' = "probed"
    /\ UNCHANGED <<html_content, probe_nav, place_data, blob, legacy_fields>>
    /\ UNCHANGED runVars

\* the legacy branch of _extract_from_app_init_state (lines 40-47) on the
\* blob as a list and on the same blob in string form
ApplyLegacy ==
    /\ fn = "legacy"
    /\ legacy_fields' =
           Some([direct |-> LegacyFields([kind |-> "list", data |-> blob]),
                 string |-> LegacyFields([kind |-> "str", data |-> StringForm(blob)])])
    /\ fn' = "parsed"
    /\ UNCHANGED <<html_content, probe_nav, place_data, website_status, blob>>
    /\ UNCHANGED runVars

NextFn ==
    \/ ApplyExtract
    \/ ApplyProbe
    \/ ApplyLegacy

SpecFn == InitFn /\ [][NextFn]_vars

(***************************************************************************)
(* Properties                                                              *)
(***************************************************************************)

\* C1 (as claimed): when link collection has ended and max_places was
\* supplied, place_links has at most max_places elements.
C1_LinkSetWithinMax ==
    (pc = "items" /\ max_places # NoMax) => Cardinality(place_links) <= max_places

\* C2: no link is navigated to twice, the links still to visit are exactly
\* the collected links not yet attempted, and once the for-loop has started
\* the run does not get past it before every collected link was attempted,
\* whichever of them failed.
C2_EveryLinkAttemptedOnce ==
    /\ \A l \in Links : attempts[l] <= 1 /\ (attempts[l] = 1 => l \in place_links)
    /\ failed \subseteq {l \in place_links : attempts[l] = 1}
    /\ pc = "items" => todo \cup in_flight = {l \in place_links : attempts[l] = 0}
    /\ (pc \in {"finally", "done"} /\ count > 0) =>
           /\ \A l \in place_links : attempts[l] = 1
           /\ count = Cardinality(place_links)

\* C2 witness: a finished run in which two links were collected and both
\* failed, so the second was attempted after a failure
C2_Witness ==
    /\ pc = "done"
    /\ Cardinality(place_links) = 2
    /\ failed = place_links
    /\ \A l \in place_links : attempts[l] = 1

AllSourcesEmpty(html) ==
    html = None \/ (html[1].rendered = EmptyRendered /\ html[1].init = EmptyInitData)

DetailFields ==
    {"name", "place_id", "coordinates", "address", "rating", "reviews_count",
     "categories", "website", "phone"}

\* C3: no record of the output comes from a page on which all eight
\* sources found nothing, and every record has a field other than link.
C3_NoRecordForEmptyPage ==
    /\ Len(item_log) = Len(results)
    /\ \A i \in 1..Len(results) :
          /\ ~AllSourcesEmpty(item_log[i].html)
          /\ \E f \in DetailFields : results[i][f] # None

\* C3 witness: both links were read without failure, one gave a record and
\* the other, on which nothing was found, gave none
C3_Witness ==
    /\ pc = "items"
    /\ todo = {}
    /\ in_flight = {}
    /\ count = 2
    /\ failed = {}
    /\ Len(results) = 1

\* C4 (as claimed): with max_places 0 or None the scroll loop is left only
\* by the end marker or the no-progress condition.
C4_ZeroOrNoneNeverMax ==
    (max_places \in {NoMax, 0} /\ scroll_exit # "none") =>
        scroll_exit \in {"end", "no_progress"}

\* C4 (amended): with max_places None the scroll loop is left only by the
\* end marker or by the no-progress condition, the latter with the counter
\* at 15; with max_places 0 it is left by the max-links condition, with an
\* empty link set.
C4_NoneNeverMax ==
    /\ (max_places = NoMax /\ scroll_exit # "none") =>
           /\ scroll_exit \in {"end", "no_progress"}
           /\ scroll_exit = "no_progress" =>
                  scroll_attempts_no_new = MAX_SCROLL_ATTEMPTS_WITHOUT_NEW_LINKS
    /\ (max_places = 0 /\ scroll_exit # "none") =>
           /\ scroll_exit = "max"
           /\ place_links = {}

\* C4 witness: without a bound, the loop was left by the no-progress
\* condition with links collected
C4_Witness ==
    /\ max_places = NoMax
    /\ scroll_exit = "no_progress"
    /\ place_links # {}
    /\ pc = "items"

\* C5: for a navigation that returns, the status is forbidden exactly for a
\* response with 401, 403 or 451, error exactly for a response with another
\* status >= 400 or for no response, accessible exactly for a status < 400.
C5_StatusMapping ==
    (fn = "probed" /\ probe_nav.kind \in {"response", "no_response"}) =>
        LET response == probe_nav.kind = "response"
            code == probe_nav.status
        IN /\ website_status = "forbidden" <=> (response /\ code \in {401, 403, 451})
           /\ website_status = "error" <=>
                  ((response /\ code >= 400 /\ code \notin {401, 403, 451}) \/ ~response)
           /\ website_status = "accessible" <=> (response /\ code < 400)

\* C5 witness: a response with status 451 was classified
C5_Witness ==
    /\ fn = "probed"
    /\ probe_nav.kind = "response"
    /\ probe_nav.status = 451
    /\ website_status = "forbidden"

\* C6: try_load_website always returns one of the four statuses; a timeout
\* gives timeout, another exception gives forbidden when its lower-cased
\* text contains one of the four keywords and error otherwise.
C6_ExceptionMapping ==
    fn = "probed" =>
        /\ website_status \in {"accessible", "forbidden", "timeout", "error"}
        /\ probe_nav.kind = "timeout" => website_status = "timeout"
        /\ probe_nav.kind = "exception" =>
               website_status =
                   IF probe_nav.text \in {MsgAccessDenied, MsgForbidden,
                                          MsgPermission, MsgUnauthorized}
                   THEN "forbidden"
                   ELSE "error"

\* C6 witness: an exception with the text "Access Denied" was classified
C6_Witness ==
    /\ fn = "probed"
    /\ probe_nav.kind = "exception"
    /\ probe_nav.text = MsgAccessDenied
    /\ website_status = "forbidden"

\* C7: a record whose probe returned another status than accessible holds a
\* sentinel as website and the extracted URL as original_website; a record
\* whose probe returned accessible, or that was not probed, holds the
\* extracted website and no original_website.
C7_OriginalWebsiteIffSentinel ==
    /\ Len(item_log) = Len(results)
    /\ \A i \in 1..Len(results) :
          LET extracted == item_log[i].details.website
          IN /\ item_log[i].status = "none" <=> ~ShouldProbe(extracted)
             /\ IF item_log[i].status \in {"accessible", "none"}
                THEN /\ results[i].website = extracted
                     /\ results[i].original_website = None
                ELSE /\ results[i].website # None
                     /\ results[i].website[1] \in Sentinels
                     /\ results[i].original_website = extracted
                     /\ extracted # None

\* C7 witness: the output holds a record whose probe timed out, and one
\* whose website ('N/A') was not probed
C7_Witness ==
    /\ Len(results) = 2
    /\ item_log[1].status = "timeout"
    /\ results[1].website = Some(SentinelTimeout)
    /\ results[1].original_website = Some("https://roma.example")
    /\ item_log[2].status = "none"
    /\ results[2].website = Some("N/A")

\* C8: when the function returns after the browser was launched, the
\* browser is closed.
C8_ClosedOnReturn ==
    (outcome = "returned" /\ browser # "none") => browser = "disconnected"

\* C8 witness: a timeout was caught at run level with the browser still
\* connected, and the function returned after the finally block closed it
C8_Witness ==
    /\ outcome = "returned"
    /\ caught = "timeout"
    /\ close_calls = 1
    /\ browser = "disconnected"

\* C9 (as claimed): no exception leaves scrape_google_maps.
C9_NeverRaises == outcome # "raised"

\* a value the rendered extractor produced: a number (also 0), or a
\* non-empty string or list
ProducedNum(x) == x # None

ProducedStr(x) == TruthyStr(x)

ProducedList(x) == TruthyList(x)

\* C10 (as claimed): place_id and coordinates of the result are those of
\* the structured state, and where the rendered markup produced a value
\* and the structured state holds another, the result holds the rendered
\* one, also for a rendered rating of 0.0 or reviews count of 0.
C10_RenderedNeverReplaced ==
    (fn = "extracted" /\ html_content # None) =>
        LET r == html_content[1].rendered
            i == html_content[1].init
            kept(f) == place_data # None /\ place_data[1][f] = r[f]
        IN /\ place_data # None =>
                  /\ place_data[1].place_id \in {None, i.place_id}
                  /\ place_data[1].coordinates = i.coordinates
           /\ \A f \in {"rating", "reviews_count"} :
                  (ProducedNum(r[f]) /\ i[f] # None) => kept(f)
           /\ \A f \in {"name", "address", "website"} :
                  (ProducedStr(r[f]) /\ i[f] # None) => kept(f)
           /\ (ProducedList(r.categories) /\ i.categories # None) => kept("categories")
           /\ ProducedStr(r.phone) => kept("phone")

\* C11 (as claimed): while the scroll loop goes on, the end marker was not
\* on the page in the iteration that just ended, whatever the height did.
C11_ExitsWhenMarkerPresent == pc = "scroll" => ~last_iter.end_marker

\* C11 (amended): while the scroll loop goes on, the iteration that just
\* ended did not find the height unchanged with the end marker on the
\* page; the loop is left by the end-marker break only in an iteration
\* that did.
C11_ExitsWhenMarkerPresentAndHeightUnchanged ==
    /\ pc = "scroll" => ~(last_iter.end_marker /\ last_iter.unchanged)
    /\ scroll_exit = "end" => (last_iter.end_marker /\ last_iter.unchanged)

\* C11 witness: the loop was left by the end-marker break after it had
\* collected links and counted iterations without progress
C11_Witness ==
    /\ scroll_exit = "end"
    /\ pc = "items"
    /\ place_links # {}
    /\ scroll_attempts_no_new > 0
    /\ last_iter.end_marker
    /\ last_iter.unchanged

\* C12: while the scroll loop goes on, scroll_attempts_no_new is the number
\* of latest consecutive iterations with unchanged height and no new link
\* and is below 15; the loop is left by the no-progress break exactly when
\* that number is 15, and the counter never exceeds 15.
C12_CounterCountsStalledIterations ==
    /\ scroll_attempts_no_new <= MAX_SCROLL_ATTEMPTS_WITHOUT_NEW_LINKS
    /\ pc = "scroll" =>
           /\ scroll_attempts_no_new = stalled
           /\ stalled < MAX_SCROLL_ATTEMPTS_WITHOUT_NEW_LINKS
    /\ scroll_exit = "no_progress" =>
           /\ scroll_attempts_no_new = MAX_SCROLL_ATTEMPTS_WITHOUT_NEW_LINKS
           /\ stalled = MAX_SCROLL_ATTEMPTS_WITHOUT_NEW_LINKS
    /\ (stalled >= MAX_SCROLL_ATTEMPTS_WITHOUT_NEW_LINKS /\ scroll_exit # "none") =>
           scroll_exit \in {"no_progress", "end"}

\* C12 witness: the loop was left by the no-progress break, with links
\* collected and the greatest height read
C12_Witness ==
    /\ scroll_exit = "no_progress"
    /\ pc = "items"
    /\ stalled = MAX_SCROLL_ATTEMPTS_WITHOUT_NEW_LINKS
    /\ last_height = MaxHeight
    /\ place_links # {}

\* C13 (as claimed): after the single-place branch the scroll loop is not
\* run, the link set is the one link of the current URL and at most one
\* detail page is begun, exactly one once the for-loop is over.
C13_SinglePlaceShortCircuits ==
    single_result =>
        /\ pc # "scroll"
        /\ scroll_exit = "none"
        /\ Cardinality(place_links) = 1
        /\ count <= 1

\* C14: no detail page is navigated to while links are collected; at most
\* one link is between the head of the for-loop and the end of its body;
\* every link begun before it was navigated to, and is either recorded,
\* dropped or failed.
C14_OneLinkAtATime ==
    /\ pc \in {"launch", "setup", "wait_feed", "feed_count", "scroll"} =>
           /\ count = 0
           /\ in_flight = {}
           /\ \A l \in Links : attempts[l] = 0
    /\ Cardinality(in_flight) <= 1
    /\ pc = "items" =>
           /\ count = Cardinality(place_links \ todo)
           /\ in_flight \subseteq place_links \ todo
           /\ \A l \in (place_links \ todo) \ in_flight : attempts[l] = 1
           /\ \A l \in in_flight : attempts[l] = 0

\* C14 witness: the second link is begun after the first one, which gave a
\* record, was done
C14_Witness ==
    /\ pc = "items"
    /\ count = 2
    /\ Cardinality(in_flight) = 1
    /\ Len(results) = 1
    /\ \E l \in place_links \ in_flight : attempts[l] = 1

\* C15: the breaks taken so far are those of the positions up to count that
\* are positive multiples of 10, count is the number of links begun, an
\* extended break goes with a break, and at the end of a run over n links
\* n \div 10 breaks were taken.
C15_BreakEveryTenthLink ==
    /\ count = Cardinality(place_links \ todo)
    /\ breaks = {k \in 1..count : k % BREAK_INTERVAL = 0}
    /\ extended \subseteq breaks
    /\ todo = {} => Cardinality(breaks) = Cardinality(place_links) \div BREAK_INTERVAL

\* C15 witness: a run over more than 20 links is over, with two breaks of
\* which the second was extended
C15_Witness ==
    /\ todo = {}
    /\ count > 2 * BREAK_INTERVAL
    /\ breaks = {BREAK_INTERVAL, 2 * BREAK_INTERVAL}
    /\ extended = {2 * BREAK_INTERVAL}

\* C16 (as claimed): the fields taken from the string form of a legacy blob
\* are those taken from the blob as a list.
C16_StringFormEqualsDirectForm ==
    fn = "parsed" => legacy_fields[1].string = legacy_fields[1].direct

\* C17: every record carries the link that was navigated to for it, a link
\* of the collected set; no two records carry the same link; there are no
\* more records than collected links.
C17_RecordLinks ==
    /\ Len(item_log) = Len(results)
    /\ \A i \in 1..Len(results) :
          /\ results[i].link = item_log[i].link
          /\ results[i].link \in place_links
          /\ attempts[results[i].link] = 1
          /\ results[i].link \notin failed
    /\ \A i, j \in 1..Len(results) : results[i].link = results[j].link => i = j
    /\ Len(results) <= Cardinality(place_links)

\* C17 witness: a finished run over two links, of which one failed and the
\* other gave a record
C17_Witness ==
    /\ pc = "done"
    /\ Cardinality(place_links) = 2
    /\ Cardinality(failed) = 1
    /\ Len(results) = 1

\* C18: without max_places, a scroll loop whose feed has stopped changing
\* runs at most 15 iterations after the first one on the stuck feed, and
\* is left.
C18_StuckFeedTerminates ==
    /\ [](( max_places = NoMax /\ feed # 0 /\ pc = "scroll") =>
              frozen_iters <= MAX_SCROLL_ATTEMPTS_WITHOUT_NEW_LINKS)
    /\ (max_places = NoMax /\ feed # 0 /\ pc = "scroll") ~> (pc # "scroll")

\* C18 witness: the loop was left by the no-progress break in the 16th
\* iteration on a feed stuck at another height than the last one read
C18_Witness ==
    /\ max_places = NoMax
    /\ feed # 0
    /\ scroll_exit = "no_progress"
    /\ pc = "items"
    /\ frozen_iters = MAX_SCROLL_ATTEMPTS_WITHOUT_NEW_LINKS + 1

\* C19 (as claimed): nothing is asked of the page after browser.close()
\* was called, and browser.close() is called at most once.
C19_ClosedOnce ==
    /\ close_calls > 0 => pc \in {"finally", "done"}
    /\ close_calls <= 1

\* C19 (amended): nothing is asked of the page after browser.close() was
\* called; browser.close() returns at most once and is called at most
\* twice, the second time only after the first call raised and left the
\* browser connected.
C19_ClosedOnceUnlessCloseRaised ==
    /\ close_calls = Len(close_log)
    /\ close_calls > 0 => pc \in {"finally", "done"}
    /\ Len(close_log) <= 2
    /\ Len(close_log) = 2 => close_log[1] = "raised_connected"
    /\ Cardinality({i \in 1..Len(close_log) : close_log[i] = "closed"}) <= 1

\* C19 witness: every link was processed, the close after the for-loop
\* returned and the finally block did not close again
C19_Witness ==
    /\ pc = "done"
    /\ count > 0
    /\ close_log = <<"closed">>
    /\ outcome = "returned"

====
